---------------------------- MODULE Spec2Model ----------------------------
(***************************************************************************)
(* A model of Transmute's front end (src/src/App.tsx): the session state   *)
(* machine, the batch conversion loop of handleConvert, the export of      *)
(* handleDownload, and the events that interleave with them at their       *)
(* awaits.                                                                 *)
(*                                                                         *)
(* Strings are tuples of one-character strings, so that split, pop and     *)
(* toLowerCase are computed and not assumed.  File objects live in a heap  *)
(* (objs) and arrays hold references to them: `[...files]` copies the      *)
(* array, not the objects, so handleConvert's writes through updatedFiles  *)
(* are writes to the very objects the `files` state holds.                 *)
(*                                                                         *)
(* The native dialogs of plugin-dialog (open, save) are modal to the       *)
(* window: no click and no drop is delivered while one is shown, and each  *)
(* dialog is one step of the handler that awaits it.  Engine and copy      *)
(* invocations and the timers are not: any enabled handler may run while   *)
(* one of them is pending.  A button can be clicked only in the view that  *)
(* renders it.                                                             *)
(***************************************************************************)
EXTENDS Integers, Sequences, FiniteSets, TLC

(* ------------------------------ bounds -------------------------------- *)

\* Largest batch: addFiles is not offered a payload that would exceed it.
MaxFiles == 3
\* Largest batch of ExportSpec, where every batch is also exported.
MaxExportFiles == 2
\* handleConvert calls that may be running at once.
MaxRuns == 2

(* ------------------------------ strings ------------------------------- *)

UpperChars ==
  <<"A","B","C","D","E","F","G","H","I","J","K","L","M",
    "N","O","P","Q","R","S","T","U","V","W","X","Y","Z">>
LowerChars ==
  <<"a","b","c","d","e","f","g","h","i","j","k","l","m",
    "n","o","p","q","r","s","t","u","v","w","x","y","z">>

ToLowerChar(c) ==
  IF \E k \in 1..Len(UpperChars) : UpperChars[k] = c
    THEN LowerChars[CHOOSE k \in 1..Len(UpperChars) : UpperChars[k] = c]
    ELSE c

\* String.prototype.toLowerCase
toLowerCase(s) == [k \in 1..Len(s) |-> ToLowerChar(s[k])]

\* s.split(seps).pop(): what follows the last separator (all of s if none).
SplitPop(s, seps) ==
  LET at == {k \in 1..Len(s) : s[k] \in seps}
      last == IF at = {} THEN 0 ELSE CHOOSE k \in at : \A j \in at : j <= k
  IN SubSeq(s, last + 1, Len(s))

\* s.split(sep)[0]: what precedes the first separator (all of s if none).
SplitFirst(s, sep) ==
  LET at == {k \in 1..Len(s) : s[k] = sep}
      first == IF at = {} THEN Len(s) + 1 ELSE CHOOSE k \in at : \A j \in at : k <= j
  IN SubSeq(s, 1, first - 1)

(* ------------------------------ tables -------------------------------- *)

VideoExts ==
  {<<"m","p","4">>, <<"m","o","v">>, <<"a","v","i">>, <<"m","k","v">>, <<"w","e","b","m">>,
   <<"o","g","v">>, <<"f","l","v">>, <<"w","m","v">>, <<"3","g","p">>, <<"m","p","g">>,
   <<"v","o","b">>, <<"t","s">>, <<"m","2","t","s">>}
ImageExts ==
  {<<"p","n","g">>, <<"j","p","g">>, <<"j","p","e","g">>, <<"w","e","b","p">>,
   <<"g","i","f">>, <<"a","v","i","f">>, <<"b","m","p">>, <<"t","i","f","f">>,
   <<"i","c","o">>, <<"t","g","a">>, <<"s","v","g">>}
AudioExts ==
  {<<"m","p","3">>, <<"w","a","v">>, <<"m","4","a">>, <<"o","g","g">>, <<"f","l","a","c">>,
   <<"a","a","c">>, <<"w","m","a">>, <<"a","i","f","f">>, <<"a","l","a","c">>,
   <<"o","p","u","s">>}

getFileType(name) ==
  LET ext == toLowerCase(SplitPop(name, {"."}))
  IN IF ext \in VideoExts THEN "video"
     ELSE IF ext \in ImageExts THEN "image"
     ELSE IF ext \in AudioExts THEN "audio"
     ELSE "unknown"

FORMATS_video ==
  <<<<"M","P","4">>, <<"G","I","F">>, <<"M","K","V">>, <<"A","V","I">>, <<"M","O","V">>,
    <<"W","E","B","M">>, <<"O","G","V">>, <<"F","L","V">>, <<"W","M","V">>, <<"3","G","P">>,
    <<"M","P","G">>, <<"V","O","B">>, <<"T","S">>, <<"M","2","T","S">>>>
FORMATS_image ==
  <<<<"P","N","G">>, <<"J","P","G">>, <<"W","E","B","P">>, <<"A","V","I","F">>,
    <<"B","M","P">>, <<"T","I","F","F">>, <<"I","C","O">>, <<"T","G","A">>, <<"S","V","G">>>>
FORMATS_audio ==
  <<<<"M","P","3">>, <<"W","A","V">>, <<"M","4","A">>, <<"O","G","G">>, <<"F","L","A","C">>,
    <<"A","A","C">>, <<"W","M","A">>, <<"A","I","F","F">>, <<"A","L","A","C">>,
    <<"O","P","U","S">>>>

FORMATS(type) ==
  IF type = "video" THEN FORMATS_video
  ELSE IF type = "image" THEN FORMATS_image
  ELSE FORMATS_audio

MP4 == <<"M","P","4">>
PNG == <<"P","N","G">>
MP3 == <<"M","P","3">>

(* ------------------------------ inputs -------------------------------- *)

PathVideo == <<"a",".","m","p","4">>
PathImage == <<"d","/","b",".","P","N","G">>
PathAudio == <<"d","\\","c",".","o",".","m","p","3">>
PathNone  == <<"d","/">>

\* What the destination prompts may return.
SavePath == <<"o","u","t">>
SaveDir  == <<"d","s","t">>

\* The inputs a specification draws from.
\*   first, more : what a drop or the picker delivers to an empty batch, and to
\*                 one that has files
\*   limit       : the largest batch
\*   choices     : the places in the dropdown's list the user picks from
\*   increments  : see Increments
\*   answers     : what the destination prompt of an export settles to
\* Spec explores the sessions in breadth and never confirms a destination;
\* ExportSpec confirms destinations and keeps the batches few.
MainInputs ==
  [first |-> {<<>>, <<PathVideo>>, <<PathImage>>, <<PathAudio>>, <<PathNone>>,
              <<PathAudio, PathVideo>>},
   more |-> {<<>>, <<PathVideo>>, <<PathImage, PathAudio>>},
   limit |-> MaxFiles,
   choices |-> {1, 2},
   increments |-> {0, 50},
   answers |-> {"null", "throw"}]

RunInputs ==
  [first |-> {<<PathVideo>>, <<PathAudio, PathVideo>>}, more |-> {<<PathImage>>},
   limit |-> MaxFiles, choices |-> {1}, increments |-> {50},
   answers |-> {"null", "throw"}]

SwitchInputs ==
  [first |-> {<<PathVideo, PathAudio>>}, more |-> {<<PathImage>>},
   limit |-> MaxFiles, choices |-> {2}, increments |-> {0},
   answers |-> {"path"}]

ExportInputs ==
  [first |-> {<<PathVideo>>},
   more |-> {<<PathAudio>>},
   limit |-> MaxExportFiles,
   choices |-> {1},
   increments |-> {0},
   answers |-> {"null", "throw", "path"}]

Payloads(in, prev) == IF prev = <<>> THEN in.first ELSE in.more

(* ------------------------------ state --------------------------------- *)

VARIABLES
  state,     \* AppState
  files,     \* the `files` state: an array of references into objs
  format,    \* the selected target format
  error,     \* the error toast's message, or Null
  progress,  \* the fake progress of the bar
  objs,      \* the FileInfo objects alive, by reference
  runs,      \* the handleConvert calls in progress
  exports,   \* the handleDownload calls in progress
  lastOp     \* what the last step was, when the state may not show it

vars == <<state, files, format, error, progress, objs, runs, exports, lastOp>>

Null == "null"
\* An absent convertedPath.
Undefined == [src |-> <<>>, fmt |-> <<>>]

Range(s) == {s[k] : k \in 1..Len(s)}

Remove(s, k) == [j \in 1..(Len(s) - 1) |-> IF j < k THEN s[j] ELSE s[j + 1]]

Min(a, b) == IF a < b THEN a ELSE b

Lowest(S) == CHOOSE k \in S : \A j \in S : k <= j

\* The FileInfo values an array of references shows.
Values(o, f) == [k \in 1..Len(f) |-> o[f[k]]]

(***************************************************************************)
(* References are names, and a program cannot tell one naming from         *)
(* another: every step leaves the heap named in the order in which the     *)
(* arrays reach it (files, then each run's updatedFiles, then each         *)
(* export's files), and drops the objects no array reaches.                *)
(***************************************************************************)
RECURSIVE Reach(_)
Reach(arrays) ==
  IF arrays = <<>> THEN <<>>
  ELSE LET before == Reach(SubSeq(arrays, 1, Len(arrays) - 1))
           last == arrays[Len(arrays)]
           RECURSIVE Add(_, _)
           Add(seen, k) ==
             IF k > Len(last) THEN seen
             ELSE Add(IF last[k] \in Range(seen) THEN seen ELSE Append(seen, last[k]),
                      k + 1)
       IN Add(before, 1)

Rename(order, s) ==
  [k \in 1..Len(s) |-> CHOOSE j \in 1..Len(order) : order[j] = s[k]]

Commit(o, f, rs, es) ==
  LET order == Reach(<<f>> \o [k \in 1..Len(rs) |-> rs[k].updatedFiles]
                           \o [k \in 1..Len(es) |-> es[k].files])
  IN /\ objs' = [k \in 1..Len(order) |-> o[order[k]]]
     /\ files' = Rename(order, f)
     /\ runs' = [k \in 1..Len(rs) |-> [rs[k] EXCEPT !.updatedFiles = Rename(order, @)]]
     /\ exports' = [k \in 1..Len(es) |-> [es[k] EXCEPT !.files = Rename(order, @)]]

(***************************************************************************)
(* lastOp records a step that may leave no other trace: an event that was  *)
(* ignored or answered by nothing, a reset, and the return of a            *)
(* handleConvert or handleDownload call with what the call did.  After any *)
(* other step it is Other.                                                 *)
(***************************************************************************)
Other == [op |-> "other"]

Init ==
  /\ state = "IDLE"
  /\ files = <<>>
  /\ format = MP4
  /\ error = Null
  /\ progress = 0
  /\ objs = <<>>
  /\ runs = <<>>
  /\ exports = <<>>
  /\ lastOp = [op |-> "init"]

(* --------------------------- adding files ----------------------------- *)

UnknownFile == <<"U","n","k","n","o","w","n"," ","F","i","l","e">>

\* path.split(/[/\\]/).pop() || 'Unknown File'
FileName(path) ==
  LET name == SplitPop(path, {"/", "\\"})
  IN IF name = <<>> THEN UnknownFile ELSE name

\* The FileInfo that addFiles builds for one path.
NewFile(path) ==
  [path |-> path, name |-> FileName(path), type |-> getFileType(FileName(path)),
   status |-> "pending", convertedPath |-> Undefined]

\* The format addFiles selects for a batch whose first file has this type.
AutoFormat(firstType) ==
  IF firstType = "image" THEN PNG
  ELSE IF firstType = "audio" THEN MP3
  ELSE MP4

\* A mutant: the format is derived on every addition.
DerivesFormat_always(prev, combined) == Len(combined) > 0

\* Whether addFiles derives the format: prev is the batch before, combined after.
DerivesFormat(prev, combined) == Len(combined) > 0 /\ Len(prev) = 0

\* A mutant: an empty list of paths is not returned on.
addFiles_anyPaths(paths) ==
  LET heap == objs \o [k \in 1..Len(paths) |-> NewFile(paths[k])]
      combined == files \o [k \in 1..Len(paths) |-> Len(objs) + k]
  IN [objs |-> heap, files |-> combined,
      format |-> IF DerivesFormat(files, combined)
                   THEN AutoFormat(heap[combined[1]].type)
                   ELSE format,
      state |-> "SELECTION"]

\* addFiles: the heap, the batch, the format and the session state it leaves.
addFiles(paths) ==
  IF Len(paths) = 0
    THEN [objs |-> objs, files |-> files, format |-> format, state |-> state]
    ELSE LET heap == objs \o [k \in 1..Len(paths) |-> NewFile(paths[k])]
             combined == files \o [k \in 1..Len(paths) |-> Len(objs) + k]
         IN [objs |-> heap, files |-> combined,
             format |-> IF DerivesFormat(files, combined)
                          THEN AutoFormat(heap[combined[1]].type)
                          ELSE format,
             state |-> "SELECTION"]

\* What `await open({multiple: true, ...})` may settle to.
PickerResults(in) ==
  {[kind |-> "null", paths |-> <<>>], [kind |-> "throw", paths |-> <<>>],
   [kind |-> "string", paths |-> <<PathImage>>]}
    \cup {[kind |-> "array", paths |-> p] : p \in Payloads(in, files)}

\* The click on the IDLE view's circle: the dialog, then addFiles on what it gave.
openFilePicker(in) ==
  /\ state = "IDLE"
  /\ \E selected \in PickerResults(in) :
       LET given == IF selected.kind \in {"array", "string"}
                      THEN selected.paths ELSE <<>>
           added == addFiles(given)
       IN /\ Len(files) + Len(given) <= in.limit
          /\ Commit(added.objs, added.files, runs, exports)
          /\ format' = added.format
          /\ state' = added.state
          /\ lastOp' = [op |-> "openFilePicker", kind |-> selected.kind]
  /\ UNCHANGED <<error, progress>>

\* A mutant: no guard.
DropIgnored_never == FALSE

\* A mutant: drops are ignored only while the engine is busy.
DropIgnored_whileInvoking ==
  state = "PROCESSING" /\ \E r \in 1..Len(runs) : runs[r].pc = "invoke"

\* The drag-drop listener's guard, with the state its effect closed over.
DropIgnored == state = "PROCESSING"

DragDrop(in) ==
  \E paths \in Payloads(in, files) :
    LET added == IF DropIgnored
                   THEN [objs |-> objs, files |-> files, format |-> format,
                         state |-> state]
                   ELSE addFiles(paths)
    IN /\ DropIgnored \/ Len(files) + Len(paths) <= in.limit
       /\ Commit(added.objs, added.files, runs, exports)
       /\ format' = added.format
       /\ state' = added.state
       /\ lastOp' = [op |-> "dragDrop", ignored |-> DropIgnored, n |-> Len(paths)]
       /\ UNCHANGED <<error, progress>>

\* The options the SELECTION view hands to FormatDropdown.
FormatOptions ==
  IF files = <<>> THEN FORMATS_video
  ELSE IF objs[files[1]].type = "unknown" THEN FORMATS("video")
  ELSE FORMATS(objs[files[1]].type)

\* A choice in the dropdown: onSelect is setFormat.
SelectFormat(in) ==
  /\ state = "SELECTION"
  /\ \E k \in in.choices :
       /\ k <= Len(FormatOptions)
       /\ format' = FormatOptions[k]
  /\ lastOp' = Other
  /\ UNCHANGED <<state, files, error, progress, objs, runs, exports>>

\* A mutant: the progress is left as it was.
ResetValues_keepsProgress == [state |-> "IDLE", error |-> Null, progress |-> progress]

\* The values reset gives to the session state, the error and the progress.
ResetValues == [state |-> "IDLE", error |-> Null, progress |-> 0]

\* Cancel in the SELECTION view, Start New in the FINISHED view.
reset ==
  /\ state \in {"SELECTION", "FINISHED"}
  /\ state' = ResetValues.state
  /\ Commit(objs, <<>>, runs, exports)
  /\ error' = ResetValues.error
  /\ progress' = ResetValues.progress
  /\ lastOp' = [op |-> "reset", from |-> state, n |-> Len(files),
                error |-> error, progress |-> progress]
  /\ UNCHANGED format

\* The X of the error toast.
DismissError ==
  /\ error # Null
  /\ error' = Null
  /\ lastOp' = Other
  /\ UNCHANGED <<state, files, format, progress, objs, runs, exports>>

(* ---------------------------- conversion ------------------------------ *)

\* Math.min(p + Math.random() * 5, 90): the ceiling.
ProgressCeiling == 90
\* A step of ProgressTick stands for the firings of the interval that no other
\* handler separates: n firings add the sum s of their steps, 0 <= s < 5n, and
\* clamping after each is clamping after the last.  An increment of 0 is one
\* firing that drew 0; one of 50 is the sum of eleven or more.
Increments(in) == in.increments
\* `duration < 3000`, and the elapsed times drawn around it.
PacingThreshold == 3000
Durations == {2999, 3000}

\* A mutant: each file is converted to the format of its own category.
Invocation_ownFormat(file, fmt) ==
  [filePath |-> file.path, outputFormat |-> AutoFormat(file.type), result |-> "pending"]

\* invoke('convert_file', {filePath, outputFormat}), pending.
Invocation(file, fmt) ==
  [filePath |-> file.path, outputFormat |-> fmt, result |-> "pending"]

\* What a successful convert_file returns: the artifact made of that source in
\* that format.
Artifact(call) == [src |-> call.filePath, fmt |-> call.outputFormat]

\* The try branch after the await: convertedPath, then status.
AfterSuccess(file, result) ==
  [file EXCEPT !.convertedPath = result, !.status = "done"]

\* A mutant: the catch leaves the status as the loop had set it.
AfterFailure_keepsStatus(file) == file

\* The catch branch of the per-file try.
AfterFailure(file) == [file EXCEPT !.status = "error"]

\* What convert_file may reject with.
Rejections ==
  {[string |-> TRUE, text |-> "engine error"], [string |-> FALSE, text |-> ""]}

\* typeof e === 'string' ? e : 'Conversion failed'
TopLevelError(e) == IF e.string THEN e.text ELSE "Conversion failed"

\* A mutant: whatever the invocation did, the outer catch is reached.
Escapes_always(ok) == TRUE

\* A mutant: the rejection of an invocation reaches the outer catch.
Escapes_rejection(ok) == ~ok

\* Whether what the awaited invocation did leaves the per-file try for the
\* outer catch: the per-file catch takes every rejection and throws nothing.
Escapes(ok) == FALSE

\* A mutant: a failure leaves the loop.
ContinueLoop_untilFailure(run, ok) == ok /\ run.i < Len(run.updatedFiles)

\* Whether the for loop goes on to another file once the invocation of file
\* run.i has settled: nothing in either branch leaves the loop.
ContinueLoop(run, ok) == run.i < Len(run.updatedFiles)

\* A mutant: the comparison is not strict.
Instant_orEqual(duration) == duration <= PacingThreshold

\* `duration < 3000`: FINISHED at once, or through the 500 ms timer.
Instant(duration) == duration < PacingThreshold

\* A mutant: the error of an earlier failure stays.
StartValues_keepsError == [state |-> "PROCESSING", error |-> error, progress |-> 0]

\* What handleConvert sets before its loop: setState, setError, setProgress.
StartValues == [state |-> "PROCESSING", error |-> Null, progress |-> 0]

\* A call of handleConvert up to its first await: the empty batch returns at
\* once; otherwise the values above, the copy of the array, the interval, and
\* the invocation of the first file.
ConvertCall ==
  IF Len(files) = 0
    THEN /\ UNCHANGED <<state, files, format, error, progress, objs, runs, exports>>
         /\ lastOp' = [op |-> "handleConvert", started |-> FALSE]
    ELSE LET updatedFiles == files
             first == updatedFiles[1]
         IN /\ state' = StartValues.state
            /\ error' = StartValues.error
            /\ progress' = StartValues.progress
            /\ objs' = [objs EXCEPT ![first].status = "converting"]
            /\ runs' = Append(runs,
                 [updatedFiles |-> updatedFiles, format |-> format, i |-> 1,
                  pc |-> "invoke", interval |-> TRUE,
                  calls |-> <<Invocation(objs[first], format)>>])
            /\ lastOp' = Other
            /\ UNCHANGED <<files, format, exports>>

\* The Convert button of the SELECTION view.
handleConvert ==
  /\ state = "SELECTION"
  /\ Len(runs) < MaxRuns
  /\ ConvertCall

\* The handler called where no view offers it: on the empty batch of IDLE.
ConvertCalledInIdle ==
  /\ state = "IDLE"
  /\ ConvertCall

\* A mutant: no ceiling.
Tick_uncapped(p, inc) == p + inc

\* The updater of the interval: p => Math.min(p + increment, 90)
Tick(p, inc) == Min(p + inc, ProgressCeiling)

\* Firings of the interval set at the start of a run.
ProgressTick(in) ==
  \E r \in 1..Len(runs), inc \in Increments(in) :
    /\ runs[r].interval
    /\ progress' = Tick(progress, inc)
    /\ lastOp' = Other
    /\ UNCHANGED <<state, files, format, error, objs, runs, exports>>

\* The pending convert_file of a run settles, and the run goes on to its next
\* await: the next invocation, the pacing timer, or its end.
InvokeReturn ==
  \E r \in 1..Len(runs), ok \in BOOLEAN, duration \in Durations :
    LET run == runs[r]
        id == run.updatedFiles[run.i]
        call == run.calls[run.i]
        settled == [run EXCEPT !.calls[run.i].result = IF ok THEN "ok" ELSE "failed"]
        heap == [objs EXCEPT ![id] = IF ok THEN AfterSuccess(@, Artifact(call))
                                          ELSE AfterFailure(@)]
    IN /\ run.pc = "invoke"
       /\ IF Escapes(ok)
            THEN \E e \in Rejections :
                   /\ error' = TopLevelError(e)
                   /\ state' = "SELECTION"
                   /\ objs' = objs
                   /\ runs' = [runs EXCEPT ![r] = [settled EXCEPT !.pc = "failed"]]
                   /\ lastOp' = Other
                   /\ UNCHANGED <<files, progress, exports>>
            ELSE /\ UNCHANGED error
                 /\ IF ContinueLoop(run, ok)
                      THEN LET next == run.updatedFiles[run.i + 1]
                           IN /\ objs' = [heap EXCEPT ![next].status = "converting"]
                              /\ runs' = [runs EXCEPT ![r] =
                                   [settled EXCEPT !.i = run.i + 1,
                                      !.calls = Append(@, Invocation(heap[next], run.format))]]
                              /\ lastOp' = Other
                              /\ UNCHANGED <<state, files, progress, exports>>
                      ELSE /\ progress' = 100
                           /\ IF Instant(duration)
                                THEN /\ state' = "FINISHED"
                                     /\ Commit(heap, run.updatedFiles, Remove(runs, r), exports)
                                ELSE /\ state' = state
                                     /\ Commit(heap, run.updatedFiles,
                                          [runs EXCEPT ![r] =
                                             [settled EXCEPT !.interval = FALSE, !.pc = "pacing"]],
                                          exports)
                           /\ lastOp' = [op |-> "invokeReturn", duration |-> duration,
                                         calls |-> settled.calls,
                                         batch |-> Values(heap, run.updatedFiles)]
       /\ UNCHANGED format

\* The timer of the delayed finish fires.
PacingTimeout ==
  \E r \in 1..Len(runs) :
    /\ runs[r].pc = "pacing"
    /\ state' = "FINISHED"
    /\ Commit(objs, files, Remove(runs, r), exports)
    /\ lastOp' = Other
    /\ UNCHANGED <<format, error, progress>>

(* ------------------------------ export -------------------------------- *)

ConvertedPrefix == <<"c","o","n","v","e","r","t","e","d","_">>

\* `${selectedDir}/converted_${file.name.split('.')[0]}.${ext}`
BatchDestination(dir, file, fmt) ==
  dir \o <<"/">> \o ConvertedPrefix \o SplitFirst(file.name, ".")
      \o <<".">> \o toLowerCase(fmt)

\* invoke('save_file_locally', {source, destination}), pending, for the file at
\* place k of the array the call captured.
Copy(k, source, destination) ==
  [file |-> k, source |-> source, destination |-> destination, result |-> "pending"]

\* The count the FINISHED view shows: files.filter(f => f.status === 'done').length
ReadyToSave ==
  Len(SelectSeq(Values(objs, files), LAMBDA f : f.status = "done"))

\* The single-file branch's test of the batch.
SingleMode(f) == Len(f) = 1 /\ objs[f[1]].convertedPath # Undefined

\* A mutant: the status is not looked at.
Eligible_anyPath(file) == file.convertedPath # Undefined

\* The batch loop's test of one file.
Eligible(file) == file.convertedPath # Undefined /\ file.status = "done"

\* The positions from `from` on that the batch loop would copy, as the objects
\* are now.
EligibleFrom(e, from) ==
  {k \in from..Len(e.files) : Eligible(objs[e.files[k]])}

\* The message each catch sets.
SaveError(mode) ==
  IF mode = "single" THEN "Failed to save file" ELSE "Failed to save files"

\* A mutant: a cancelled prompt is taken for a failure.
PromptError_onCancel(answer, mode) ==
  IF answer \in {"throw", "null"} THEN SaveError(mode) ELSE error

\* The error after the destination prompt has settled: the catch sets it when
\* the dialog throws; a prompt that gives null or a path sets nothing.
PromptError(answer, mode) ==
  IF answer = "throw" THEN SaveError(mode) ELSE error

\* A mutant: the catch rolls the call's copies back.
AfterCopyFailure_rollsBack(e) == [e EXCEPT !.copies = <<>>]

\* What the catch of an export leaves of the call's record: nothing is undone.
AfterCopyFailure(e) == [e EXCEPT !.copies[Len(e.copies)].result = "failed"]

\* What a call of handleDownload that has returned leaves in lastOp: its
\* copies, the files it had captured as they are now, and whether the session
\* still shows that very batch as FINISHED.
Ended(e, op, ok) ==
  [op |-> op, answer |-> "path", ok |-> ok, mode |-> e.mode,
   copies |-> e.copies, batch |-> Values(objs, e.files),
   quiet |-> (state = "FINISHED" /\ files = e.files)]

\* The batch loop from position `from`: the next copy, or the end of the call.
\* x is the call's place in exports, or Len(exports) + 1 for a call that starts.
BatchLoop(e, x, from, op) ==
  IF EligibleFrom(e, from) # {}
    THEN LET k == Lowest(EligibleFrom(e, from))
             file == objs[e.files[k]]
             going == [e EXCEPT !.k = k,
                         !.copies = Append(@, Copy(k, file.convertedPath,
                                       BatchDestination(e.dest, file, e.format)))]
         IN /\ Commit(objs, files, runs,
                      IF x > Len(exports) THEN Append(exports, going)
                                          ELSE [exports EXCEPT ![x] = going])
            /\ lastOp' = Other
    ELSE /\ Commit(objs, files, runs,
                   IF x > Len(exports) THEN exports ELSE Remove(exports, x))
         /\ lastOp' = Ended(e, op, TRUE)

\* The Download / Save All Files button: the destination prompt and everything
\* up to the first copy's await.  One call is modelled in progress at a time.
handleDownload(in) ==
  /\ state = "FINISHED"
  /\ exports = <<>>
  /\ \E answer \in in.answers :
       LET mode == IF SingleMode(files) THEN "single"
                   ELSE IF Len(files) > 1 THEN "batch" ELSE "none"
           e == [files |-> files, format |-> format, mode |-> mode,
                 dest |-> IF mode = "single" THEN SavePath ELSE SaveDir,
                 k |-> 0, copies |-> <<>>]
       IN IF mode = "none"
            THEN /\ lastOp' = [op |-> "handleDownload", answer |-> "none"]
                 /\ UNCHANGED <<error, objs, files, runs, exports>>
          ELSE IF answer = "throw"
            THEN /\ error' = PromptError(answer, mode)
                 /\ lastOp' = [op |-> "handleDownload", answer |-> answer]
                 /\ UNCHANGED <<objs, files, runs, exports>>
          ELSE IF answer = "null"
            THEN /\ error' = PromptError(answer, mode)
                 /\ lastOp' = [op |-> "handleDownload", answer |-> answer]
                 /\ UNCHANGED <<objs, files, runs, exports>>
          ELSE IF mode = "single"
            THEN /\ Commit(objs, files, runs, Append(exports,
                      [e EXCEPT !.k = 1,
                         !.copies = <<Copy(1, objs[files[1]].convertedPath, SavePath)>>]))
                 /\ lastOp' = Other
                 /\ UNCHANGED error
          ELSE /\ BatchLoop(e, Len(exports) + 1, 1, "handleDownload")
               /\ UNCHANGED error
  /\ UNCHANGED <<state, format, progress>>

\* The pending save_file_locally of an export settles, and the call goes on to
\* its next copy or ends.
CopyReturn ==
  \E x \in 1..Len(exports), ok \in BOOLEAN :
    LET e == exports[x]
        settled == [e EXCEPT !.copies[Len(e.copies)].result = "ok"]
    IN /\ IF ~ok
            THEN /\ error' = SaveError(e.mode)
                 /\ Commit(objs, files, runs, Remove(exports, x))
                 /\ lastOp' = Ended(AfterCopyFailure(e), "copyReturn", FALSE)
            ELSE IF e.mode = "single"
            THEN /\ Commit(objs, files, runs, Remove(exports, x))
                 /\ lastOp' = Ended(settled, "copyReturn", TRUE)
                 /\ UNCHANGED error
            ELSE /\ BatchLoop(settled, x, e.k + 1, "copyReturn")
                 /\ UNCHANGED error
       /\ UNCHANGED <<state, format, progress>>

(* --------------------------- specification ---------------------------- *)

Next ==
  \/ openFilePicker(MainInputs)
  \/ DragDrop(MainInputs)
  \/ SelectFormat(MainInputs)
  \/ reset
  \/ DismissError
  \/ handleConvert
  \/ ProgressTick(MainInputs)
  \/ InvokeReturn
  \/ PacingTimeout
  \/ handleDownload(MainInputs)

Spec == Init /\ [][Next]_vars

\* The same steps over fewer inputs, for what is checked of whole behaviours.
FairNext ==
  \/ openFilePicker(RunInputs)
  \/ DragDrop(RunInputs)
  \/ SelectFormat(RunInputs)
  \/ reset
  \/ DismissError
  \/ handleConvert
  \/ ProgressTick(RunInputs)
  \/ InvokeReturn
  \/ PacingTimeout
  \/ handleDownload(RunInputs)

\* The engine answers every invocation, and the pacing timer fires.
FairSpec ==
  /\ Init /\ [][FairNext]_vars
  /\ WF_vars(InvokeReturn)
  /\ WF_vars(PacingTimeout)

\* The steps of FairNext, and the conversion handler called directly.
CallNext ==
  \/ openFilePicker(RunInputs)
  \/ DragDrop(RunInputs)
  \/ SelectFormat(RunInputs)
  \/ reset
  \/ DismissError
  \/ handleConvert
  \/ ConvertCalledInIdle
  \/ ProgressTick(RunInputs)
  \/ InvokeReturn
  \/ PacingTimeout
  \/ handleDownload(RunInputs)

CallSpec == Init /\ [][CallNext]_vars

ExportNext ==
  \/ openFilePicker(ExportInputs)
  \/ DragDrop(ExportInputs)
  \/ SelectFormat(ExportInputs)
  \/ reset
  \/ DismissError
  \/ handleConvert
  \/ ProgressTick(ExportInputs)
  \/ InvokeReturn
  \/ PacingTimeout
  \/ handleDownload(ExportInputs)
  \/ CopyReturn

ExportSpec == Init /\ [][ExportNext]_vars

\* Exports of batches whose format the user changes between runs.
SwitchNext ==
  \/ openFilePicker(SwitchInputs)
  \/ DragDrop(SwitchInputs)
  \/ SelectFormat(SwitchInputs)
  \/ reset
  \/ DismissError
  \/ handleConvert
  \/ ProgressTick(SwitchInputs)
  \/ InvokeReturn
  \/ PacingTimeout
  \/ handleDownload(SwitchInputs)
  \/ CopyReturn

SwitchSpec == Init /\ [][SwitchNext]_vars

(* ------------------------------ properties ---------------------------- *)

\* C1: a run of handleConvert attempts every file of the batch, in order,
\* whatever failed before; when the run ends each file whose invocation
\* succeeded has status 'done' and each file whose invocation failed has
\* status 'error', and this is the batch the session shows.
C1_PartialFailure ==
  lastOp.op = "invokeReturn" =>
    /\ Len(lastOp.calls) = Len(lastOp.batch)
    /\ Values(objs, files) = lastOp.batch
    /\ \A k \in 1..Len(lastOp.batch) :
         /\ lastOp.calls[k].filePath = lastOp.batch[k].path
         /\ lastOp.calls[k].result \in {"ok", "failed"}
         /\ lastOp.batch[k].status =
              IF lastOp.calls[k].result = "ok" THEN "done" ELSE "error"

\* A run of three files has ended: the first failed, the two after it succeeded.
C1_Witness ==
  /\ lastOp.op = "invokeReturn"
  /\ Len(lastOp.calls) = 3
  /\ lastOp.calls[1].result = "failed"
  /\ lastOp.calls[2].result = "ok"
  /\ lastOp.calls[3].result = "ok"
  /\ lastOp.batch[1].status = "error"
  /\ lastOp.batch[3].status = "done"

\* C2: in FINISHED every file of the batch has status 'done' or 'error', and
\* the count of files ready to save that the summary shows is the number of
\* files whose status is 'done'.
C2_FinishedStatuses ==
  state = "FINISHED" =>
    /\ \A k \in 1..Len(files) : objs[files[k]].status \in {"done", "error"}
    /\ ReadyToSave =
         Cardinality({k \in 1..Len(files) : objs[files[k]].status = "done"})

\* FINISHED with a batch that holds both a converted and a failed file.
C2_Witness ==
  /\ state = "FINISHED"
  /\ \E k \in 1..Len(files) : objs[files[k]].status = "done"
  /\ \E k \in 1..Len(files) : objs[files[k]].status = "error"
  /\ ReadyToSave < Len(files)

\* C3: in every reachable state, a file of the batch has a convertedPath if and
\* only if its status is 'done'.
C3_ResultPathIffDone ==
  \A k \in 1..Len(files) :
    (objs[files[k]].convertedPath # Undefined) <=> (objs[files[k]].status = "done")

\* C4: the conversions of a batch are strictly sequential: at most one
\* convert_file invocation is in flight at any time, the invocations of a run
\* are those of the first files of its batch in batch order, and every
\* invocation but the last issued has settled.
C4_Sequential ==
  /\ Cardinality({c \in {<<r, k>> : r \in 1..Len(runs), k \in 1..MaxFiles + 1} :
                    /\ c[2] <= Len(runs[c[1]].calls)
                    /\ runs[c[1]].calls[c[2]].result = "pending"}) <= 1
  /\ \A r \in 1..Len(runs) :
       /\ Len(runs[r].calls) = runs[r].i
       /\ \A k \in 1..Len(runs[r].calls) :
            /\ runs[r].calls[k].filePath = objs[runs[r].updatedFiles[k]].path
            /\ runs[r].calls[k].result = "pending" =>
                 (k = Len(runs[r].calls) /\ runs[r].pc = "invoke")

\* The invocation of the third file is in flight; those of the first two have
\* settled, one either way.
C4_Witness ==
  \E r \in 1..Len(runs) :
    /\ runs[r].pc = "invoke"
    /\ runs[r].i = 3
    /\ runs[r].calls[1].result = "failed"
    /\ runs[r].calls[2].result = "ok"
    /\ runs[r].calls[3].result = "pending"
    /\ objs[runs[r].updatedFiles[3]].status = "converting"

\* C5: every run that enters PROCESSING reaches FINISHED, exactly once and with
\* no other change of the session state in between: at the end of the loop when
\* the run took less than 3000 ms, through the pacing timer otherwise; once
\* FINISHED, nothing of the run is left to set the state again.
C5_RunReachesFinished ==
  /\ (state = "PROCESSING") ~> (state = "FINISHED")
  /\ [][state = "PROCESSING" => state' \in {"PROCESSING", "FINISHED"}]_vars
  /\ [](state = "FINISHED" => runs = <<>>)
  /\ [](lastOp.op = "invokeReturn" =>
          IF lastOp.duration < 3000
            THEN state = "FINISHED"
            ELSE /\ state = "PROCESSING"
                 /\ Len(runs) = 1
                 /\ runs[1].pc = "pacing")

\* A run of 3000 ms whose files all failed is in its pacing window.
C5_Witness ==
  /\ lastOp.op = "invokeReturn"
  /\ lastOp.duration >= 3000
  /\ state = "PROCESSING"
  /\ progress = 100
  /\ \A k \in 1..Len(lastOp.calls) : lastOp.calls[k].result = "failed"

\* C6: a drop that arrives while the state is PROCESSING, the pacing window
\* included, changes nothing: not the batch, not the format, not the state, and
\* nothing is left pending for later.
C6_DropIgnoredWhileProcessing ==
  [][(state = "PROCESSING" /\ lastOp'.op = "dragDrop") =>
       /\ files' = files
       /\ objs' = objs
       /\ format' = format
       /\ state' = state
       /\ error' = error
       /\ progress' = progress
       /\ runs' = runs
       /\ exports' = exports]_vars

\* Files were dropped in the pacing window of a run.
C6_Witness ==
  /\ lastOp.op = "dragDrop"
  /\ lastOp.n > 0
  /\ state = "PROCESSING"
  /\ \E r \in 1..Len(runs) : runs[r].pc = "pacing"

\* C7: reset from SELECTION or FINISHED leaves the state IDLE, the batch empty,
\* the error null and the progress 0, whatever they were.
C7_Reset ==
  lastOp.op = "reset" =>
    /\ lastOp.from \in {"SELECTION", "FINISHED"}
    /\ state = "IDLE"
    /\ files = <<>>
    /\ error = Null
    /\ progress = 0

\* Start New was pressed in FINISHED with an error showing and the progress 100.
C7_Witness ==
  /\ lastOp.op = "reset"
  /\ lastOp.from = "FINISHED"
  /\ lastOp.n > 1
  /\ lastOp.error # Null
  /\ lastOp.progress = 100
  /\ state = "IDLE"

\* C8: files added to an empty batch select the format by the category of the
\* first of them: PNG for image, MP3 for audio, MP4 for video and unknown;
\* files added to a batch that is not empty leave the format as it is.
C8_FormatAutoSelection ==
  [][Len(files') > Len(files) =>
       IF files = <<>>
         THEN LET category == objs'[files'[1]].type
              IN /\ category \in {"image", "audio", "video", "unknown"}
                 /\ format' = CASE category = "image" -> <<"P","N","G">>
                                [] category = "audio" -> <<"M","P","3">>
                                [] OTHER -> <<"M","P","4">>
         ELSE format' = format]_vars

\* Two files, an audio file the last, were dropped on a batch of one video for
\* which GIF had been chosen.
C8_Witness ==
  /\ lastOp.op = "dragDrop"
  /\ lastOp.n = 2
  /\ Len(files) = 3
  /\ objs[files[1]].type = "video"
  /\ objs[files[2]].type = "image"
  /\ objs[files[3]].type = "audio"
  /\ format = <<"G","I","F">>
  /\ state = "SELECTION"

\* C9: an export that went through, of a batch the session still shows as
\* FINISHED, has copied each file of status 'done' exactly once, from that
\* file's convertedPath, and no file of status 'error'; in the single-file mode
\* as in the batch mode.
C9_ExportCopiesDoneFiles ==
  (lastOp.op \in {"copyReturn", "handleDownload"} /\ lastOp.answer = "path"
     /\ lastOp.ok /\ lastOp.quiet) =>
    /\ lastOp.mode = (IF Len(lastOp.batch) = 1 THEN "single" ELSE "batch")
    /\ \A j \in 1..Len(lastOp.copies) :
         /\ lastOp.copies[j].result = "ok"
         /\ lastOp.copies[j].file \in 1..Len(lastOp.batch)
    /\ \A k \in 1..Len(lastOp.batch) :
         LET made == {j \in 1..Len(lastOp.copies) : lastOp.copies[j].file = k}
         IN /\ lastOp.batch[k].status = "done" =>
                 /\ Cardinality(made) = 1
                 /\ \A j \in made :
                      lastOp.copies[j].source = lastOp.batch[k].convertedPath
            /\ lastOp.batch[k].status = "error" => made = {}

\* A batch export has ended with one copy, of the converted file of a batch
\* whose other file failed after an earlier run had converted it.
C9_Witness ==
  /\ lastOp.op = "copyReturn"
  /\ lastOp.ok
  /\ lastOp.quiet
  /\ lastOp.mode = "batch"
  /\ Len(lastOp.copies) = 1
  /\ \E k \in 1..Len(lastOp.batch) :
       /\ lastOp.batch[k].status = "error"
       /\ lastOp.batch[k].convertedPath # Undefined

\* C10: when a copy of an export fails, the error message is set, once for the
\* whole export since the call ends there, the state and the batch are as they
\* were, and the copies made before the failing one stay made.
C10_CopyFailure ==
  [][(exports # <<>> /\ lastOp'.op = "copyReturn" /\ ~lastOp'.ok) =>
       /\ error' = (IF lastOp'.mode = "single" THEN "Failed to save file"
                                               ELSE "Failed to save files")
       /\ exports' = <<>>
       /\ state' = state
       /\ format' = format
       /\ Values(objs', files') = Values(objs, files)
       /\ Len(lastOp'.copies) = Len(exports[1].copies)
       /\ \A j \in 1..Len(lastOp'.copies) :
            /\ lastOp'.copies[j].source = exports[1].copies[j].source
            /\ lastOp'.copies[j].destination = exports[1].copies[j].destination
            /\ lastOp'.copies[j].result =
                 IF j < Len(lastOp'.copies) THEN "ok" ELSE "failed"]_vars

\* The second copy of a batch export has failed after the first was made.
C10_Witness ==
  /\ lastOp.op = "copyReturn"
  /\ ~lastOp.ok
  /\ lastOp.mode = "batch"
  /\ Len(lastOp.copies) = 2
  /\ lastOp.copies[1].result = "ok"
  /\ lastOp.copies[2].result = "failed"
  /\ state = "FINISHED"
  /\ error = "Failed to save files"

\* C11: every copy a call of handleDownload issues, and every error it sets
\* for a failed copy, happens while the session state is FINISHED and the
\* batch the session shows is the one the call copies from, however reset and
\* drops fall between the call's awaits.
C11_ExportOnlyOnFinished ==
  [][/\ (/\ exports' # <<>>
         /\ Len(exports'[1].copies) >
              (IF exports = <<>> THEN 0 ELSE Len(exports[1].copies)))
          => (state' = "FINISHED" /\ files' = exports'[1].files)
     /\ (exports # <<>> /\ lastOp'.op = "copyReturn" /\ ~lastOp'.ok)
          => lastOp'.quiet]_vars

\* C12: a cancelled dialog is a no-op and no error: the input picker giving
\* null leaves state, batch, format and error as they were; the destination
\* prompt giving null, in the single-file as in the directory mode, issues no
\* copy, sets no error and leaves the state FINISHED and the batch as it was.
C12_CancelIsNoOp ==
  [][/\ (lastOp'.op = "openFilePicker" /\ lastOp'.kind = "null")
          => /\ state' = state
             /\ files' = files
             /\ objs' = objs
             /\ format' = format
             /\ error' = error
     /\ (lastOp'.op = "handleDownload" /\ lastOp'.answer = "null")
          => /\ exports = <<>>
             /\ exports' = <<>>
             /\ error' = error
             /\ state' = "FINISHED"
             /\ files' = files
             /\ objs' = objs
             /\ format' = format]_vars

\* The directory prompt of a batch of two files, one of them converted, was
\* cancelled with no error showing.
C12_Witness ==
  /\ lastOp.op = "handleDownload"
  /\ lastOp.answer = "null"
  /\ state = "FINISHED"
  /\ error = Null
  /\ exports = <<>>
  /\ Len(files) = 2
  /\ \E k \in 1..Len(files) : Eligible(objs[files[k]])

\* C13: the session state changes only along the edges IDLE->SELECTION,
\* SELECTION->PROCESSING, PROCESSING->FINISHED, PROCESSING->SELECTION,
\* SELECTION->IDLE and FINISHED->IDLE; in particular nothing takes FINISHED to
\* SELECTION or PROCESSING.
C13_StateEdges ==
  [][state' # state =>
       <<state, state'>> \in {<<"IDLE", "SELECTION">>,
                              <<"SELECTION", "PROCESSING">>,
                              <<"PROCESSING", "FINISHED">>,
                              <<"PROCESSING", "SELECTION">>,
                              <<"SELECTION", "IDLE">>,
                              <<"FINISHED", "IDLE">>}]_vars

\* C14: while a batch lives, a file whose status is 'done' or 'error' keeps a
\* status in {done, error}: no step takes it back to 'pending' or 'converting'.
\* Files keep their place in the batch until reset empties it.
C14_NoBackwardStatus ==
  [][\A k \in 1..Min(Len(files), Len(files')) :
       objs[files[k]].status \in {"done", "error"}
         => objs'[files'[k]].status \in {"done", "error"}]_vars

\* C15: a failed engine invocation stays at its file: while the state is
\* PROCESSING no step takes the session back to SELECTION and nothing a run
\* does sets the error message (only the failed copy of an export begun
\* earlier can), and at the end of the run the batch is kept whole.
C15_FailureContained ==
  /\ [][state = "PROCESSING" => state' \in {"PROCESSING", "FINISHED"}]_vars
  /\ [][(state = "PROCESSING" /\ error' # error) =>
          \/ error' = Null
          \/ (exports # <<>> /\ lastOp'.op = "copyReturn" /\ ~lastOp'.ok)]_vars
  /\ [](lastOp.op = "invokeReturn" =>
          /\ state \in {"PROCESSING", "FINISHED"}
          /\ Len(files) = Len(lastOp.calls)
          /\ Values(objs, files) = lastOp.batch)

\* A run of two files has ended in FINISHED with both invocations failed and
\* no error message.
C15_Witness ==
  /\ lastOp.op = "invokeReturn"
  /\ Len(lastOp.calls) = 2
  /\ lastOp.calls[1].result = "failed"
  /\ lastOp.calls[2].result = "failed"
  /\ state = "FINISHED"
  /\ error = Null
  /\ Len(files) = 2

\* C16: handleConvert called with an empty batch changes nothing and invokes
\* nothing; called with a batch that is not empty it sets the state to
\* PROCESSING, the error to null and the progress to 0, and only then invokes
\* the engine, for the first file.
C16_ConvertStart ==
  [][/\ (lastOp'.op = "handleConvert")
          => /\ files = <<>>
             /\ ~lastOp'.started
             /\ UNCHANGED <<state, files, format, error, progress, objs, runs, exports>>
     /\ (Len(runs') > Len(runs))
          => /\ files # <<>>
             /\ state' = "PROCESSING"
             /\ error' = Null
             /\ progress' = 0
             /\ files' = files
             /\ LET run == runs'[Len(runs')]
                IN /\ run.i = 1
                   /\ Len(run.calls) = 1
                   /\ run.calls[1].result = "pending"
                   /\ run.calls[1].filePath = objs[files[1]].path]_vars

\* A second run over a batch has just begun: the first invocation is pending,
\* the progress of the first run is gone, and a file of the first run is there.
C16_Witness ==
  /\ state = "PROCESSING"
  /\ progress = 0
  /\ error = Null
  /\ Len(runs) = 1
  /\ runs[1].i = 1
  /\ runs[1].calls[1].result = "pending"
  /\ \E k \in 1..Len(files) : objs[files[k]].status \in {"done", "error"}

\* C17: the format is fixed for a run: every invocation of a run is given the
\* format that was selected when Convert was pressed, and no step changes the
\* selected format while the state is PROCESSING.
C17_FormatFixedForRun ==
  /\ [](\A r \in 1..Len(runs) : \A k \in 1..Len(runs[r].calls) :
          runs[r].calls[k].outputFormat = runs[r].format)
  /\ [](lastOp.op = "invokeReturn" =>
          \A k \in 1..Len(lastOp.calls) :
            lastOp.calls[k].outputFormat = lastOp.calls[1].outputFormat)
  /\ [][Len(runs') > Len(runs) => runs'[Len(runs')].format = format]_vars
  /\ [][state = "PROCESSING" => format' = format]_vars

\* The second file of a batch of videos is being converted to GIF, which the
\* user chose, as the first was.
C17_Witness ==
  \E r \in 1..Len(runs) :
    /\ runs[r].i = 2
    /\ runs[r].calls[1].outputFormat = <<"G","I","F">>
    /\ runs[r].calls[2].outputFormat = <<"G","I","F">>
    /\ runs[r].calls[2].result = "pending"
    /\ format = <<"G","I","F">>
    /\ state = "PROCESSING"

\* C18: the progress is always within 0..100; while a run still has a file to
\* attempt it is at most 90 and no step of the run lowers it; once every file
\* has been attempted it is 100, and it is 100 whenever the state is FINISHED.
C18_ProgressBounds ==
  /\ [](progress \in 0..100)
  /\ [](\A r \in 1..Len(runs) :
          /\ runs[r].pc = "invoke" => progress <= 90
          /\ runs[r].pc = "pacing" => progress = 100)
  /\ [](state = "FINISHED" => progress = 100)
  /\ [](lastOp.op = "invokeReturn" => progress = 100)
  /\ [][(/\ Len(runs') = Len(runs)
         /\ \E r \in 1..Len(runs) : runs[r].pc = "invoke" /\ runs'[r].pc = "invoke")
          => progress' >= progress]_vars

\* The ticks of a run have brought the progress to its ceiling while the
\* second file is converted.
C18_Witness ==
  /\ state = "PROCESSING"
  /\ progress = 90
  /\ \E r \in 1..Len(runs) :
       /\ runs[r].pc = "invoke"
       /\ runs[r].interval
       /\ runs[r].i = 2

\* C19: the progress timer does not leak: the interval of a run is running
\* exactly while the run has an invocation pending, so it is stopped once the
\* run has left its loop; no interval is running while the state is IDLE,
\* SELECTION or FINISHED; and at most one interval is running at any time.
C19_TimerStopped ==
  /\ Cardinality({r \in 1..Len(runs) : runs[r].interval}) <= 1
  /\ \A r \in 1..Len(runs) : runs[r].interval <=> runs[r].pc = "invoke"
  /\ state \in {"IDLE", "SELECTION", "FINISHED"} =>
       \A r \in 1..Len(runs) : ~runs[r].interval
  /\ lastOp.op = "invokeReturn" => \A r \in 1..Len(runs) : ~runs[r].interval

\* A run of three files has left its loop and waits for the pacing timer with
\* its interval cleared.
C19_Witness ==
  \E r \in 1..Len(runs) :
    /\ runs[r].pc = "pacing"
    /\ ~runs[r].interval
    /\ Len(runs[r].calls) = 3
    /\ progress = 100

\* C20: the state is IDLE if and only if the batch is empty: IDLE has no
\* files, and SELECTION, PROCESSING and FINISHED each have at least one.
C20_IdleIffEmpty ==
  (state = "IDLE") <=> (files = <<>>)

\* An empty list of paths was dropped in IDLE, and the state is still IDLE
\* with no files.
C20_Witness ==
  /\ lastOp.op = "dragDrop"
  /\ ~lastOp.ignored
  /\ lastOp.n = 0
  /\ state = "IDLE"
  /\ files = <<>>

\* C21: whenever an export copies an artifact, the format from which the call
\* builds the destination's name and extension is the format that was given
\* to the engine invocation that made the artifact.
C21_ExportFormatIsConversionFormat ==
  \A x \in 1..Len(exports) : \A j \in 1..Len(exports[x].copies) :
    exports[x].copies[j].source.fmt = exports[x].format

=============================================================================
